---- MODULE Spec2Model ----
(***************************************************************************)
(* Model of the process supervisor of beta/rust/src/run.rs: the            *)
(* orchestrators run_xmr_resilient (one watchdog thread, create_watchdog)  *)
(* and run_xmr_super_resilient (three inline watchdog threads), the Ctrl-C *)
(* handler that clears the shared `running` flag, and the child processes  *)
(* the watchdogs spawn, poll, probe and kill.                              *)
(*                                                                         *)
(* A watchdog thread is cut at its blocking points.  Position "top" is the *)
(* `while running.load(..)` test (a thread reaches it when it starts and   *)
(* again after the short sleep that ends every iteration), "pause" is the  *)
(* 30 s sleep, "pkill" and "spawn" are the two external commands of a      *)
(* restart, "backoff" is the sleep after a failed spawn, "kill" is the     *)
(* code after the loop and "done" is the finished thread.                  *)
(***************************************************************************)
EXTENDS Integers, Naturals, Sequences, FiniteSets, TLC

VARIABLES
    mode,        \* command: "resilient" (run_xmr_resilient) or "super"
    opc,         \* position of the orchestrator (main thread)
    joined,      \* number of watchdog handles the orchestrator has joined
    handlerOk,   \* ctrlc::set_handler returned Ok
    running,     \* the Arc<AtomicBool>: TRUE = running, FALSE = stopping
    wpc,         \* wpc[i]: position of watchdog thread i
    cur,         \* cur[i]: current_process of watchdog i (handle and child state)
    fails,       \* fails[i]: consecutive_failures of watchdog i
    backoff,     \* backoff[i]: backoff_time (super) / last `backoff` (resilient)
    leaked,      \* leaked[i]: live children of i whose handle was dropped
    failRun,     \* history: failed spawn attempts of i since its last successful spawn
    crashRun,    \* history: failed exits in a row of the resilient watchdog's children
    result,      \* value returned by the orchestrator ("none" until it returns)
    exit,        \* exit status of the host process: <<>> until it exits, then <<code>>
    obs          \* what the startup steps met and returned (filled in SpecStartup)

vars == <<mode, opc, joined, handlerOk, running, wpc, cur, fails, backoff,
          leaked, failRun, crashRun, result, exit, obs>>

----------------------------------------------------------------------------
(* Bounds of the exploration *)

\* failed spawn attempts in a row explored for the resilient watchdog
MaxFailRunResilient == 6
\* failed spawn attempts in a row explored in super-resilient mode, summed over
\* the three watchdogs
MaxFailRunSuper == 1
\* live children whose handle has been dropped, summed over the watchdogs
MaxLeaked == 1

(* Program constants *)

MAX_FAILURES == 5
ResilientBackoffBase == 5
ResilientShiftCap == 10
SuperBackoffInit == 1
SuperBackoffCap == 300
SuperWatchdogs == 3

Watchdogs == 1..SuperWatchdogs

NumWatchdogs(m) == IF m = "resilient" THEN 1 ELSE SuperWatchdogs

Started == 1..NumWatchdogs(mode)


----------------------------------------------------------------------------
(* Pure helpers *)

RECURSIVE Pow2(_)
Pow2(n) == IF n = 0 THEN 1 ELSE 2 * Pow2(n - 1)

Min(a, b) == IF a < b THEN a ELSE b

\* let backoff = 5 * (1 << consecutive_failures.min(10));
ResilientBackoff(f) == ResilientBackoffBase * Pow2(Min(f, ResilientShiftCap))

\* backoff_time = (backoff_time * 2).min(300);
SuperBackoff(b) == Min(b * 2, SuperBackoffCap)

\* States of current_process.  "None" is Option::None; the others are Some(child):
\* the child runs ("Alive"), has ended and the handle has not yet seen it
\* ("Exit0": exit status zero, "ExitN": non-zero, "Killed": ended by the signal
\* of pkill), or the handle has reaped it and caches its status ("Waited0":
\* success, "WaitedN": no success).
HandleStates == {"None", "Alive", "Exit0", "ExitN", "Killed", "Waited0", "WaitedN"}

\* Outcomes of child.try_wait() for a handle state.
TryWait(h) ==
    CASE h = "Alive"   -> {"Running", "Err"}
      [] h = "Exit0"   -> {"Exited0", "Err"}
      [] h = "ExitN"   -> {"ExitedN", "Err"}
      [] h = "Killed"  -> {"ExitedN", "Err"}
      [] h = "Waited0" -> {"Exited0"}
      [] h = "WaitedN" -> {"ExitedN"}
      [] OTHER         -> {}

\* The handle after try_wait returned r: an observed exit is cached.
AfterWait(h, r) ==
    CASE r = "Exited0" -> "Waited0"
      [] r = "ExitedN" -> "WaitedN"
      [] OTHER         -> h

\* Number of live child processes watchdog i has spawned.
Live(i) == (IF cur[i] = "Alive" THEN 1 ELSE 0) + leaked[i]

\* Output of `ps -p <pid> -o state`, as the sequence of the non-blank characters
\* of stdout: the column header "S" and the state letter, the header alone (no
\* such process), or nothing at all (ps wrote no stdout).
PsOutputs == {<<"S", "R">>, <<"S", "S">>, <<"S", "D">>, <<"S">>, <<>>}

\* ps_output.contains(c)
Contains(out, c) == \E k \in DOMAIN out : out[k] = c

\* !ps_output.contains('R') && !ps_output.contains('S')
BadState(out) == ~Contains(out, "R") /\ ~Contains(out, "S")

----------------------------------------------------------------------------
(* get_xmr_path, set_executable_permissions, set_process_priority *)

\* The candidate locations, in the order of the source text of get_xmr_path.
Candidates == <<"home", "cwd", "sys", "which">>

\* What get_xmr_path observes of its environment:
\*   home   env HOME is not set ("unset"), or $HOME/xmr/xmr is absent or exists
\*   cwd    current_dir() fails ("err"), or <cwd>/xmr/xmr is absent or exists
\*   sys    /usr/local/bin/xmr exists
\*   which  `which xmr` could not be run ("err"), exited non-zero ("fail"),
\*          wrote bytes that are not UTF-8 ("nonutf8"), wrote only white space
\*          ("blank"), or wrote the path of the executable it found ("path")
LocateEnvs ==
    [home  : {"unset", "absent", "exists"},
     cwd   : {"err", "absent", "exists"},
     sys   : BOOLEAN,
     which : {"err", "fail", "nonutf8", "blank", "path"}]

\* Variant of get_xmr_path that looks at the system-wide path first.
get_xmr_path_sys_first(e) ==
    IF e.sys THEN "sys"
    ELSE IF e.home = "exists" THEN "home"
    ELSE IF e.cwd = "exists" THEN "cwd"
    ELSE IF e.which = "path" THEN "which"
    ELSE "EnvError"

\* get_xmr_path(): the candidate whose path is returned, or "EnvError".
get_xmr_path(e) ==
    IF e.home = "exists" THEN "home"
    ELSE IF e.cwd = "exists" THEN "cwd"
    ELSE IF e.sys THEN "sys"
    ELSE IF e.which = "path" THEN "which"
    ELSE "EnvError"

\* A file mode as its three octal digits <<owner, group, other>>.
FileModes == {<<6, 4, 4>>, <<6, 0, 0>>, <<7, 0, 0>>, <<7, 5, 5>>, <<7, 7, 7>>}

\* perms.set_mode(0o755)
Mode755 == <<7, 5, 5>>

\* The file can be executed: the owner's x bit is set.
Executable(m) == m[1] % 2 = 1

\* The mode after a successful `chmod +x` (no x bit masked by the umask).
ChmodPlusX(m) == [k \in 1..3 |-> IF m[k] % 2 = 1 THEN m[k] ELSE m[k] + 1]

\* What set_executable_permissions observes of its environment:
\*   unix             the build has cfg(unix)
\*   chmod            Command::new("chmod").arg("+x").arg(path).status():
\*                    Ok with status success, Ok with another status
\*                    ("failure"), or Err ("error")
\*   metadata         fs::metadata(path) is Ok
\*   set_permissions  fs::set_permissions(path, perms) is Ok
PermEnvs ==
    [unix : BOOLEAN, chmod : {"success", "failure", "error"},
     metadata : BOOLEAN, set_permissions : BOOLEAN]

\* Variant of set_executable_permissions that sets the mode without looking at
\* the result of fs::set_permissions.
set_executable_permissions_unchecked(m, p) ==
    IF p.chmod = "success"
    THEN [ret |-> "Ok", mode |-> ChmodPlusX(m), fallback |-> FALSE]
    ELSE IF ~p.unix
    THEN [ret |-> "Ok", mode |-> m, fallback |-> FALSE]
    ELSE IF ~p.metadata
    THEN [ret |-> "PermissionError", mode |-> m, fallback |-> TRUE]
    ELSE [ret |-> "Ok", mode |-> IF p.set_permissions THEN Mode755 ELSE m,
          fallback |-> TRUE]

\* set_executable_permissions(path) on a file of mode m: the value returned, the
\* mode of the file afterwards, and whether the fs::set_permissions fallback was
\* attempted.
set_executable_permissions(m, p) ==
    IF p.chmod = "success"
    THEN [ret |-> "Ok", mode |-> ChmodPlusX(m), fallback |-> FALSE]
    ELSE IF ~p.unix
    THEN [ret |-> "Ok", mode |-> m, fallback |-> FALSE]
    ELSE IF ~p.metadata
    THEN [ret |-> "PermissionError", mode |-> m, fallback |-> TRUE]
    ELSE IF p.set_permissions
    THEN [ret |-> "Ok", mode |-> Mode755, fallback |-> TRUE]
    ELSE [ret |-> "PermissionError", mode |-> m, fallback |-> TRUE]

\* What set_process_priority observes of its environment:
\*   linux      the build has cfg(target_os = "linux")
\*   renice     `renice -n -20 -p <pid>`: status success, another status, or Err
\*   nice       `nice -n -20 echo ..` .status() is Ok
\*   oom_write  fs::write("/proc/self/oom_score_adj", "-1000") is Ok
\*   echo       the `echo` fallback .status() is Ok
HardenEnvs ==
    [linux : BOOLEAN, renice : {"success", "failure", "error"}, nice : BOOLEAN,
     oom_write : BOOLEAN, echo : BOOLEAN]

\* Variant of set_process_priority that returns the failure of renice.
set_process_priority_strict(h) ==
    [ret |-> IF h.linux /\ h.renice # "success" THEN "PermissionError" ELSE "Ok",
     warnings |->
        IF ~h.linux THEN {}
        ELSE (IF h.renice = "success" THEN {} ELSE {"renice"})
             \cup (IF h.nice THEN {} ELSE {"nice"})
             \cup (IF h.oom_write THEN {} ELSE {"oom_score_adj"})]

\* set_process_priority(): the value returned and the warnings logged.
set_process_priority(h) ==
    [ret |-> "Ok",
     warnings |->
        IF ~h.linux THEN {}
        ELSE (IF h.renice = "success" THEN {} ELSE {"renice"})
             \cup (IF h.nice THEN {} ELSE {"nice"})
             \cup (IF h.oom_write THEN {} ELSE {"oom_score_adj"})]

----------------------------------------------------------------------------

\* A further live child may lose its handle (exploration bound).
CanLeak(i) == leaked[1] + leaked[2] + leaked[3] < MaxLeaked

\* A further spawn attempt of watchdog i may fail (exploration bound).
CanFail(i) ==
    IF mode = "resilient"
    THEN failRun[i] < MaxFailRunResilient
    ELSE failRun[1] + failRun[2] + failRun[3] < MaxFailRunSuper

----------------------------------------------------------------------------
(* Initial state: the process has been started with one of the two commands *)

\* The record of the startup steps when nothing is recorded.  A record made by
\* a step has, besides its stage:
\*   "located"          env, path: the environment get_xmr_path met and what it
\*                      returned
\*   "fixed", "fixed2"  penv: the environment set_executable_permissions met;
\*                      modes: the mode of the file before the first application
\*                      and after each application; rets, fallbacks: what each
\*                      application returned / whether it tried the
\*                      fs::set_permissions fallback
\*   "hardened"         henv, hres: the environment set_process_priority met and
\*                      what it returned
ObsIdle == [stage |-> "idle"]

InitProcess ==
    /\ mode \in {"resilient", "super"}
    /\ opc = "locate"
    /\ joined = 0
    /\ handlerOk = FALSE
    /\ running = TRUE
    /\ wpc = [i \in Watchdogs |-> "none"]
    /\ cur = [i \in Watchdogs |-> "None"]
    /\ fails = [i \in Watchdogs |-> 0]
    /\ backoff = [i \in Watchdogs |-> IF mode = "super" THEN SuperBackoffInit ELSE 0]
    /\ leaked = [i \in Watchdogs |-> 0]
    /\ failRun = [i \in Watchdogs |-> 0]
    /\ crashRun = 0
    /\ result = "none"
    /\ exit = <<>>

Init ==
    /\ InitProcess
    /\ obs = ObsIdle

----------------------------------------------------------------------------
(* The orchestrator: run_xmr_resilient / run_xmr_super_resilient *)

wvars == <<wpc, cur, fails, backoff, leaked, failRun, crashRun>>

\* let xmr_path = get_xmr_path()?;
Locate(e) ==
    /\ opc = "locate"
    /\ IF get_xmr_path(e) = "EnvError"
       THEN opc' = "failed" /\ result' = "EnvError"
       ELSE opc' = "perms" /\ UNCHANGED result
    /\ UNCHANGED <<mode, exit, joined, handlerOk, running, wvars>>

OrchLocate ==
    /\ opc = "locate"
    /\ \E e \in LocateEnvs : Locate(e)
    /\ UNCHANGED obs

\* Variant of OrchPerms that reports the error and carries on (no `?`).
PermsCarryOn(m, p) ==
    /\ opc = "perms"
    /\ LET r == set_executable_permissions(m, p) IN
       IF r.ret = "Ok"
       THEN UNCHANGED result
       ELSE result' = r.ret
    /\ opc' = "harden"
    /\ UNCHANGED <<mode, exit, joined, handlerOk, running, wvars>>

\* set_executable_permissions(&xmr_path)?;  on a file of mode m
Perms(m, p) ==
    /\ opc = "perms"
    /\ LET r == set_executable_permissions(m, p) IN
       IF r.ret = "Ok"
       THEN opc' = "harden" /\ UNCHANGED result
       ELSE opc' = "failed" /\ result' = r.ret
    /\ UNCHANGED <<mode, exit, joined, handlerOk, running, wvars>>

OrchPerms ==
    /\ opc = "perms"
    /\ \E m \in FileModes, p \in PermEnvs : Perms(m, p)
    /\ UNCHANGED obs

\* set_process_priority()?;
Harden(h) ==
    /\ opc = "harden"
    /\ LET r == set_process_priority(h) IN
       IF r.ret = "Ok"
       THEN opc' = "handler" /\ UNCHANGED result
       ELSE opc' = "failed" /\ result' = r.ret
    /\ UNCHANGED <<mode, exit, joined, handlerOk, running, wvars>>

OrchHarden ==
    /\ opc = "harden"
    /\ \E h \in HardenEnvs : Harden(h)
    /\ UNCHANGED obs

\* let running = setup_ctrlc_handler();
setup_ctrlc_handler ==
    /\ opc = "handler"
    /\ \E registered \in BOOLEAN : handlerOk' = registered
    /\ opc' = "spawn"
    /\ UNCHANGED <<mode, result, exit, obs, joined, running, wvars>>

\* create_watchdog(..) / (0..3).map(|i| thread::spawn(..)).collect()
OrchSpawn ==
    /\ opc = "spawn"
    /\ wpc' = [i \in Watchdogs |-> IF i \in Started THEN "top" ELSE "none"]
    /\ opc' = "wait"
    /\ UNCHANGED <<mode, result, exit, obs, joined, handlerOk, running, cur, fails,
                   backoff, leaked, failRun, crashRun>>

\* while running.load(Ordering::SeqCst) { thread::sleep(1 s) }
OrchWait ==
    /\ opc = "wait"
    /\ ~running
    /\ opc' = "join"
    /\ UNCHANGED <<mode, result, exit, obs, joined, handlerOk, running, wvars>>

\* Variant of OrchJoin that does not block on the thread (the handle is dropped
\* instead of joined).
OrchJoinNoWait ==
    /\ opc = "join"
    /\ joined < NumWatchdogs(mode)
    /\ joined' = joined + 1
    /\ UNCHANGED <<mode, result, exit, obs, opc, handlerOk, running, wvars>>

\* handle.join(): blocks until the thread has finished; an Err (the thread
\* panicked) is logged and ignored.
OrchJoin ==
    /\ opc = "join"
    /\ joined < NumWatchdogs(mode)
    /\ wpc[joined + 1] \in {"done", "panicked"}
    /\ joined' = joined + 1
    /\ UNCHANGED <<mode, result, exit, obs, opc, handlerOk, running, wvars>>

\* Ok(())
OrchReturn ==
    /\ opc = "join"
    /\ joined = NumWatchdogs(mode)
    /\ opc' = "returned"
    /\ result' = "Ok"
    /\ UNCHANGED <<mode, exit, obs, joined, handlerOk, running, wvars>>

\* Variant of MainExit whose Err arm only prints the error (as the arm of the
\* "init" command does).
MainExitPrintsOnly ==
    /\ opc \in {"returned", "failed"}
    /\ exit = <<>>
    /\ exit' = <<0>>
    /\ UNCHANGED <<mode, opc, result, obs, joined, handlerOk, running, wvars>>

\* main(): the match on the value returned by run_xmr_resilient /
\* run_xmr_super_resilient.  Ok: a message is printed and main ends (status 0);
\* Err: the error is printed and std::process::exit(1).
MainExit ==
    /\ opc \in {"returned", "failed"}
    /\ exit = <<>>
    /\ exit' = IF result = "Ok" THEN <<0>> ELSE <<1>>
    /\ UNCHANGED <<mode, opc, result, obs, joined, handlerOk, running, wvars>>

\* Variant of Interrupt that toggles the flag instead of clearing it.
InterruptToggle ==
    /\ handlerOk
    /\ opc \notin {"returned", "failed"}
    /\ running' = ~running
    /\ UNCHANGED <<mode, result, exit, obs, opc, joined, handlerOk, wvars>>

\* Variant of Interrupt in which the closure runs although its registration
\* failed.
InterruptUnregistered ==
    /\ opc \notin {"returned", "failed"}
    /\ running' = FALSE
    /\ UNCHANGED <<mode, result, exit, obs, opc, joined, handlerOk, wvars>>

\* The closure given to ctrlc::set_handler: r.store(false, Ordering::SeqCst)
Interrupt ==
    /\ handlerOk
    /\ opc \notin {"returned", "failed"}
    /\ running' = FALSE
    /\ UNCHANGED <<mode, result, exit, obs, opc, joined, handlerOk, wvars>>

----------------------------------------------------------------------------
(* Steps common to both kinds of watchdog thread *)

\* The try_wait results explored for watchdog i.
Outcomes(i) ==
    {r \in TryWait(cur[i]) : (r = "Err" /\ cur[i] = "Alive") => CanLeak(i)}

\* `while running.load(..)` reads false: the thread leaves its loop.
WLeaveLoop(i) ==
    /\ wpc[i] = "top"
    /\ ~running
    /\ wpc' = [wpc EXCEPT ![i] = "kill"]
    /\ UNCHANGED <<mode, result, exit, obs, opc, joined, handlerOk, running, crashRun, cur, fails, backoff,
                   leaked, failRun>>

\* Variant of WKill that ends every live child started from the path (a kill by
\* path instead of a kill through the handle).
WKillByPath(i) ==
    /\ wpc[i] = "kill"
    /\ cur' = [j \in Watchdogs |->
                  IF j = i THEN "None"
                  ELSE IF cur[j] = "Alive" THEN "Killed" ELSE cur[j]]
    /\ leaked' = [j \in Watchdogs |-> 0]
    /\ wpc' = [wpc EXCEPT ![i] = "done"]
    /\ UNCHANGED <<mode, result, exit, obs, opc, joined, handlerOk, running, crashRun, fails, backoff, failRun>>

\* After the loop: if let Some(mut child) = current_process { child.kill() }.
\* The handle is dropped when the thread ends; a kill that fails leaves the
\* child running.
WKill(i) ==
    /\ wpc[i] = "kill"
    /\ \E killOk \in BOOLEAN :
          /\ (cur[i] = "Alive" /\ ~killOk) => CanLeak(i)
          /\ leaked' = [leaked EXCEPT ![i] =
                           IF cur[i] = "Alive" /\ ~killOk THEN @ + 1 ELSE @]
    /\ cur' = [cur EXCEPT ![i] = "None"]
    /\ wpc' = [wpc EXCEPT ![i] = "done"]
    /\ UNCHANGED <<mode, result, exit, obs, opc, joined, handlerOk, running, crashRun, fails, backoff,
                   failRun>>

\* A sleep (30 s pause or backoff) ends.
WPauseEnd(i) ==
    /\ wpc[i] = "pause"
    /\ wpc' = [wpc EXCEPT ![i] = "spawn"]
    /\ UNCHANGED <<mode, result, exit, obs, opc, joined, handlerOk, running, crashRun, cur, fails, backoff,
                   leaked, failRun>>

\* The backoff sleep ends; then the 100 ms sleep, then the loop test.
WBackoffEnd(i) ==
    /\ wpc[i] = "backoff"
    /\ wpc' = [wpc EXCEPT ![i] = "top"]
    /\ UNCHANGED <<mode, result, exit, obs, opc, joined, handlerOk, running, crashRun, cur, fails, backoff,
                   leaked, failRun>>

----------------------------------------------------------------------------
(* The resilient watchdog: create_watchdog *)

\* Variant of RCount that counts a clean exit as a failure.
RCountExitIsFailure(f, r) ==
    CASE r = "Exited0" -> f + 1
      [] r = "ExitedN" -> f + 1
      [] r = "Err"     -> f + 1
      [] OTHER         -> f

\* consecutive_failures after the match on try_wait (lines 307-329)
RCount(f, r) ==
    CASE r = "Exited0" -> 0
      [] r = "ExitedN" -> f + 1
      [] r = "Err"     -> f + 1
      [] OTHER         -> f

\* Variant of PauseNeeded with the comparison off by one.
PauseNeededStrict(f) == f > MAX_FAILURES

\* if consecutive_failures >= MAX_FAILURES { sleep(30 s) }
PauseNeeded(f) == f >= MAX_FAILURES

\* History of the crash loop: the number of failed exits in a row, counted up
\* to MAX_FAILURES.  A failed exit is a non-zero status or a failed status check
\* of a child that has exited and whose exit has not been seen before; a clean
\* exit starts the count again.
CrashRunAfter(c, h, r) ==
    IF h \in {"Alive", "Waited0", "WaitedN"} THEN c
    ELSE CASE r = "Exited0" -> 0
           [] r = "ExitedN" -> Min(c + 1, MAX_FAILURES)
           [] r = "Err"     -> Min(c + 1, MAX_FAILURES)
           [] OTHER         -> c

\* One evaluation of the loop test (true) and of need_restart.
RLoop(i) ==
    /\ mode = "resilient"
    /\ wpc[i] = "top"
    /\ running = TRUE
    /\ \/ /\ cur[i] = "None"
          /\ wpc' = [wpc EXCEPT ![i] =
                        IF PauseNeeded(fails[i]) THEN "pause" ELSE "spawn"]
          /\ UNCHANGED <<cur, fails, crashRun>>
       \/ \E r \in Outcomes(i) :
             /\ cur' = [cur EXCEPT ![i] = AfterWait(@, r)]
             /\ fails' = [fails EXCEPT ![i] = RCount(@, r)]
             /\ crashRun' = CrashRunAfter(crashRun, cur[i], r)
             /\ wpc' = [wpc EXCEPT ![i] =
                           IF r = "Running" THEN "top"
                           ELSE IF PauseNeeded(RCount(fails[i], r)) THEN "pause"
                           ELSE "spawn"]
    /\ UNCHANGED <<mode, result, exit, obs, opc, joined, handlerOk, running, backoff,
                   leaked, failRun>>

\* Command::new(&xmr_path)...spawn() and its two arms (lines 340-362)
RSpawn(i) ==
    /\ mode = "resilient"
    /\ wpc[i] = "spawn"
    /\ \/ /\ cur[i] = "Alive" => CanLeak(i)
          /\ leaked' = [leaked EXCEPT ![i] = IF cur[i] = "Alive" THEN @ + 1 ELSE @]
          /\ cur' = [cur EXCEPT ![i] = "Alive"]
          /\ fails' = [fails EXCEPT ![i] = 0]
          /\ failRun' = [failRun EXCEPT ![i] = 0]
          /\ wpc' = [wpc EXCEPT ![i] = "top"]
          /\ UNCHANGED <<backoff, crashRun>>
       \/ /\ CanFail(i)
          /\ fails' = [fails EXCEPT ![i] = @ + 1]
          /\ failRun' = [failRun EXCEPT ![i] = @ + 1]
          /\ crashRun' = 0
          /\ backoff' = [backoff EXCEPT ![i] = ResilientBackoff(fails[i] + 1)]
          /\ wpc' = [wpc EXCEPT ![i] = "backoff"]
          /\ UNCHANGED <<cur, leaked>>
    /\ UNCHANGED <<mode, result, exit, obs, opc, joined, handlerOk, running>>

----------------------------------------------------------------------------
(* The super-resilient watchdog: the closure in run_xmr_super_resilient *)

\* let _ = child.kill(); current_process = None;   (lines 498-499)
HealthKill(i, killOk) ==
    /\ (cur[i] = "Alive" /\ ~killOk) => CanLeak(i)
    /\ leaked' = [leaked EXCEPT ![i] =
                     IF cur[i] = "Alive" /\ ~killOk THEN @ + 1 ELSE @]
    /\ cur' = [cur EXCEPT ![i] = "None"]

\* Ok(output) of the ps probe with stdout `out` (lines 493-501)
SProbe(i, out) ==
    IF BadState(out)
    THEN \E killOk \in BOOLEAN : HealthKill(i, killOk)
    ELSE UNCHANGED <<cur, leaked>>

\* One evaluation of the loop test (true), of need_restart and, when the child
\* still runs, of the ps probe (lines 443-452 and 484-508).
SLoop(i) ==
    /\ mode = "super"
    /\ wpc[i] = "top"
    /\ running = TRUE
    /\ \/ /\ cur[i] = "None"
          /\ wpc' = [wpc EXCEPT ![i] = "pkill"]
          /\ UNCHANGED <<cur, leaked>>
       \/ \E r \in Outcomes(i) \ {"Running"} :
             /\ cur' = [cur EXCEPT ![i] = AfterWait(@, r)]
             /\ wpc' = [wpc EXCEPT ![i] = "pkill"]
             /\ UNCHANGED leaked
       \/ /\ "Running" \in Outcomes(i)
          /\ \/ UNCHANGED <<cur, leaked>>              \* ps could not be run
             \/ \E out \in PsOutputs : SProbe(i, out)
          /\ UNCHANGED wpc
    /\ UNCHANGED <<mode, result, exit, obs, opc, joined, handlerOk, running, crashRun, fails, backoff,
                   failRun>>

\* The children that `pkill -f <xmr_path>` ends when it runs: every live
\* process started from the path, whichever watchdog spawned it.
PkillVictims(i) == {j \in Watchdogs : Live(j) > 0}

\* let _ = Command::new("pkill").arg("-f").arg(&xmr_path_clone).status();
SPkill(i) ==
    /\ mode = "super"
    /\ wpc[i] = "pkill"
    /\ \/ /\ cur' = [j \in Watchdogs |->
                        IF j \in PkillVictims(i) /\ cur[j] = "Alive"
                        THEN "Killed" ELSE cur[j]]
          /\ leaked' = [j \in Watchdogs |->
                           IF j \in PkillVictims(i) THEN 0 ELSE leaked[j]]
       \/ UNCHANGED <<cur, leaked>>                    \* pkill could not be run
    /\ wpc' = [wpc EXCEPT ![i] = "spawn"]
    /\ UNCHANGED <<mode, result, exit, obs, opc, joined, handlerOk, running, crashRun, fails, backoff, failRun>>

\* Command::new(&xmr_path_clone)...spawn() and its two arms (lines 465-483)
SSpawn(i) ==
    /\ mode = "super"
    /\ wpc[i] = "spawn"
    /\ \/ /\ cur[i] = "Alive" => CanLeak(i)
          /\ leaked' = [leaked EXCEPT ![i] = IF cur[i] = "Alive" THEN @ + 1 ELSE @]
          /\ cur' = [cur EXCEPT ![i] = "Alive"]
          /\ fails' = [fails EXCEPT ![i] = 0]
          /\ backoff' = [backoff EXCEPT ![i] = SuperBackoffInit]
          /\ failRun' = [failRun EXCEPT ![i] = 0]
          /\ wpc' = [wpc EXCEPT ![i] = "top"]
       \/ /\ CanFail(i)
          /\ fails' = [fails EXCEPT ![i] = @ + 1]
          /\ failRun' = [failRun EXCEPT ![i] = @ + 1]
          /\ backoff' = [backoff EXCEPT ![i] = SuperBackoff(@)]
          /\ wpc' = [wpc EXCEPT ![i] = "backoff"]
          /\ UNCHANGED <<cur, leaked>>
    /\ UNCHANGED <<mode, result, exit, obs, opc, joined, handlerOk, running, crashRun>>

----------------------------------------------------------------------------
(* The environment: the supervised program *)

\* The child held by watchdog i exits on its own, with status zero or not.
ChildExit(i) ==
    /\ cur[i] = "Alive"
    /\ \E st \in {"Exit0", "ExitN"} : cur' = [cur EXCEPT ![i] = st]
    /\ UNCHANGED <<mode, result, exit, obs, opc, joined, handlerOk, running, crashRun, wpc, fails, backoff,
                   leaked, failRun>>

\* A live child whose handle was dropped exits.
LeakedExit(i) ==
    /\ leaked[i] > 0
    /\ leaked' = [leaked EXCEPT ![i] = @ - 1]
    /\ UNCHANGED <<mode, result, exit, obs, opc, joined, handlerOk, running, crashRun, wpc, cur, fails,
                   backoff, failRun>>

----------------------------------------------------------------------------
(* Faults *)

\* println! (log_info) panics when stdout cannot be written; nothing in the
\* thread catches it.  Modelled at `Ok(child) => { log_info(..)` of the spawn:
\* the thread unwinds, its handles are dropped and the new child keeps running.
WLogPanic(i) ==
    /\ wpc[i] = "spawn"
    /\ cur[i] # "Alive"
    /\ CanLeak(i)
    /\ leaked' = [leaked EXCEPT ![i] = @ + 1]
    /\ cur' = [cur EXCEPT ![i] = "None"]
    /\ wpc' = [wpc EXCEPT ![i] = "panicked"]
    /\ UNCHANGED <<mode, result, exit, obs, opc, joined, handlerOk, running, crashRun, fails, backoff, failRun>>

----------------------------------------------------------------------------
(* Specifications *)

WStep(i) ==
    \/ WLeaveLoop(i)
    \/ WKill(i)
    \/ WPauseEnd(i)
    \/ WBackoffEnd(i)
    \/ RLoop(i)
    \/ RSpawn(i)
    \/ SLoop(i)
    \/ SPkill(i)
    \/ SSpawn(i)

OrchStep ==
    \/ OrchLocate
    \/ OrchPerms
    \/ OrchHarden
    \/ setup_ctrlc_handler
    \/ OrchSpawn
    \/ OrchWait
    \/ OrchJoin
    \/ OrchReturn
    \/ MainExit

Next ==
    \/ OrchStep
    \/ Interrupt
    \/ \E i \in Watchdogs : WStep(i)
    \/ \E i \in Watchdogs : ChildExit(i)
    \/ \E i \in Watchdogs : LeakedExit(i)

Spec == Init /\ [][Next]_vars

\* The program with its threads scheduled fairly: a watchdog thread that can take
\* a step (a sleep that ends, a call that returns) eventually takes one.  Here
\* every child.kill() succeeds and no handle of a running child is dropped.
NextLive ==
    \/ OrchStep
    \/ Interrupt
    \/ \E i \in Watchdogs : WStep(i) /\ leaked' = leaked
    \/ \E i \in Watchdogs : ChildExit(i)

SpecLive == Init /\ [][NextLive]_vars /\ \A i \in Watchdogs : WF_vars(WStep(i))

\* The program when writes to stdout may fail.
NextFault ==
    \/ Next
    \/ \E i \in Watchdogs : WLogPanic(i)

SpecFault == Init /\ [][NextFault]_vars

\* The startup sequence alone, each step recording in obs the environment it
\* met and what the function it calls returned; set_executable_permissions is
\* also applied a second time to the file it has just treated.
InitStartup ==
    /\ InitProcess
    /\ obs = [stage |-> "input"]

StartLocate ==
    /\ obs.stage = "input"
    /\ \E e \in LocateEnvs :
          /\ Locate(e)
          /\ obs' = [stage |-> "located", env |-> e, path |-> get_xmr_path(e)]

StartPerms ==
    /\ obs.stage = "located"
    /\ \E m \in FileModes, p \in PermEnvs :
          /\ Perms(m, p)
          /\ LET r == set_executable_permissions(m, p) IN
             obs' = [stage |-> "fixed", penv |-> p, modes |-> <<m, r.mode>>,
                     rets |-> <<r.ret>>, fallbacks |-> <<r.fallback>>]

StartPermsAgain ==
    /\ obs.stage = "fixed"
    /\ LET r == set_executable_permissions(obs.modes[Len(obs.modes)], obs.penv) IN
       obs' = [obs EXCEPT !.stage = "fixed2", !.modes = Append(@, r.mode),
                          !.rets = Append(@, r.ret),
                          !.fallbacks = Append(@, r.fallback)]
    /\ UNCHANGED <<mode, opc, result, exit, joined, handlerOk, running, wvars>>

StartHarden ==
    /\ obs.stage \in {"fixed", "fixed2"}
    /\ \E h \in HardenEnvs :
          /\ Harden(h)
          /\ obs' = [stage |-> "hardened", henv |-> h,
                     hres |-> set_process_priority(h)]

NextStartup ==
    \/ StartLocate
    \/ StartPerms
    \/ StartPermsAgain
    \/ StartHarden
    \/ setup_ctrlc_handler
    \/ OrchSpawn

SpecStartup == InitStartup /\ [][NextStartup]_vars

\* The program with its health probes observed: obs records which watchdog ran
\* the last observed ps probe and what ps wrote.  Here every spawn in
\* super-resilient mode succeeds and no handle of a running child is dropped.
InitProbe ==
    /\ InitProcess
    /\ obs = [stage |-> "unprobed"]

\* The iteration of watchdog i in which try_wait returns Ok(None) and ps writes
\* `out` (lines 443-452 and 484-508).
ProbeObserved(i, out) ==
    /\ mode = "super"
    /\ wpc[i] = "top"
    /\ running = TRUE
    /\ "Running" \in Outcomes(i)
    /\ SProbe(i, out)
    /\ obs' = [stage |-> "probed", who |-> i, out |-> out]
    /\ UNCHANGED <<mode, result, exit, opc, joined, handlerOk, running, crashRun,
                   wpc, fails, backoff, failRun>>

NextProbe ==
    \/ OrchStep
    \/ Interrupt
    \/ \E i \in Watchdogs :
          WStep(i) /\ leaked' = leaked /\ (mode = "super" => failRun' = failRun)
    \/ \E i \in Watchdogs : ChildExit(i)
    \/ \E i \in Watchdogs, out \in PsOutputs : ProbeObserved(i, out) /\ leaked' = leaked

SpecProbe == InitProbe /\ [][NextProbe]_vars

\* The program when every child.kill() a watchdog issues succeeds: the kill of
\* the shutdown step and the kill of the health probe leave no live child
\* behind.
NextKillsSucceed ==
    \/ OrchStep
    \/ Interrupt
    \/ \E i \in Watchdogs :
          WStep(i) /\ ((wpc[i] = "kill" \/ wpc'[i] = wpc[i]) => leaked' = leaked)
    \/ \E i \in Watchdogs : ChildExit(i)
    \/ \E i \in Watchdogs : LeakedExit(i)

SpecKillsSucceed == Init /\ [][NextKillsSucceed]_vars

\* Super-resilient mode in a calm environment: every spawn succeeds, the target
\* never exits on its own, try_wait on a running child returns Ok(None), the
\* probe finds it healthy, pkill can be run and every kill succeeds.  The main
\* thread and the watchdog threads are scheduled fairly.
InitCalm ==
    /\ InitProcess
    /\ mode = "super"
    /\ obs = ObsIdle

CalmStep(i) ==
    \/ WLeaveLoop(i)
    \/ WKill(i) /\ leaked' = leaked
    \/ SLoop(i) /\ (cur[i] = "Alive" => UNCHANGED <<cur, wpc>>)
    \/ SPkill(i) /\ ((\E j \in Watchdogs : cur[j] = "Alive") => cur' # cur)
    \/ SSpawn(i) /\ wpc'[i] = "top" /\ leaked' = leaked

NextCalm ==
    \/ OrchStep
    \/ Interrupt
    \/ \E i \in Watchdogs : CalmStep(i)

SpecCalm ==
    /\ InitCalm
    /\ [][NextCalm]_vars
    /\ WF_vars(OrchStep)
    /\ \A i \in Watchdogs : WF_vars(CalmStep(i))

TypeOK ==
    /\ mode \in {"resilient", "super"}
    /\ opc \in {"locate", "perms", "harden", "handler", "spawn", "wait", "join",
                "returned", "failed"}
    /\ joined \in 0..SuperWatchdogs
    /\ handlerOk \in BOOLEAN
    /\ running \in BOOLEAN
    /\ wpc \in [Watchdogs -> {"none", "top", "pause", "pkill", "spawn", "backoff",
                              "kill", "done", "panicked"}]
    /\ cur \in [Watchdogs -> HandleStates]
    /\ fails \in [Watchdogs -> Nat]
    /\ backoff \in [Watchdogs -> Nat]
    /\ leaked \in [Watchdogs -> 0..(MaxLeaked + 1)]
    /\ failRun \in [Watchdogs -> Nat]
    /\ crashRun \in 0..MAX_FAILURES
    /\ result \in {"none", "Ok", "EnvError", "PermissionError"}
    /\ exit \in {<<>>, <<0>>, <<1>>}
    /\ obs.stage \in {"idle", "input", "located", "fixed", "fixed2", "hardened",
                      "unprobed", "probed"}
    /\ obs.stage = "probed" => obs.who \in Watchdogs /\ obs.out \in PsOutputs
    /\ obs.stage = "located" =>
          /\ obs.env \in LocateEnvs
          /\ obs.path \in {"home", "cwd", "sys", "which", "EnvError"}
    /\ obs.stage \in {"fixed", "fixed2"} => obs.penv \in PermEnvs
    /\ obs.stage = "hardened" => obs.henv \in HardenEnvs

----------------------------------------------------------------------------
(* Properties *)

\* Positions inside the `while running.load(..)` loop.
InLoop == {"top", "pause", "pkill", "spawn", "backoff"}

\* C1: the flag starts as running, only the interrupt handler writes it, and
\* once it is stopping it stays stopping: every step that changes the flag is a
\* step of the handler and takes it from running to stopping.
C1_FlagWrittenOnceByHandler ==
    /\ running = TRUE
    /\ [][(running' # running) => (Interrupt /\ running /\ ~running')]_vars

\* C1 witness: the flag is stopping and watchdogs and orchestrator have acted
\* after it flipped.
C1_Witness ==
    /\ ~running
    /\ opc = "returned"
    /\ \A i \in Started : wpc[i] = "done"

ObservesExit0(i) ==
    /\ wpc[i] = "top"
    /\ running = TRUE
    /\ cur[i] \in {"Exit0", "Waited0"}
    /\ cur'[i] = "Waited0"
    /\ wpc'[i] # "top"

\* C9: when a watchdog whose counter is 0 observes its child exited with
\* status 0, the counter is still 0 afterwards and the watchdog goes straight
\* to its restart (pkill, spawn) without entering the long pause or a backoff
\* sleep; the pkill step is followed directly by the spawn.
C9_CleanExitRespawnsAtOnce ==
    [][\A i \in Watchdogs :
          /\ (fails[i] = 0 /\ ObservesExit0(i)) =>
                 (fails'[i] = 0 /\ wpc'[i] = (IF mode = "super" THEN "pkill" ELSE "spawn"))
          /\ (wpc[i] = "pkill" /\ wpc'[i] # "pkill") => wpc'[i] = "spawn"]_vars

\* C9 witness: the resilient watchdog has just observed a clean exit and is
\* about to spawn, counter 0.
C9_Witness ==
    /\ mode = "resilient"
    /\ wpc[1] = "spawn"
    /\ cur[1] = "Waited0"
    /\ fails[1] = 0
    /\ failRun[1] = 0

\* C3: once the flag is stopping, no watchdog begins a long-pause sleep or a
\* backoff sleep.
C3_NoSleepBeginsAfterStop ==
    [][\A i \in Watchdogs :
          (~running /\ wpc'[i] \in {"pause", "backoff"}) => wpc'[i] = wpc[i]]_vars

\* C4: every watchdog has at most one live child among those it spawned.
C4_AtMostOneLiveChild == \A i \in Watchdogs : Live(i) <= 1

\* A step of watchdog i that ends a live child spawned by another watchdog j.
EndsChildOf(i, j) == i # j /\ WStep(i) /\ Live(j)' < Live(j)

\* C5: no step of a watchdog ends a live child that another watchdog spawned.
C5_OnlyOwnerEndsChild ==
    [][\A i \in Watchdogs : \A j \in Watchdogs : ~EndsChildOf(i, j)]_vars

\* C5, amended: a live child of watchdog j ends only by exiting on its own, by
\* a step of watchdog j itself (its kill through the handle, its own pkill),
\* or, in super-resilient mode, by the pkill step of another watchdog; kills
\* through a handle (shutdown kill, kill of an unresponsive child) and steps of
\* the orchestrator never end a child of another watchdog.
C5_OnlyOwnerOrPkillEndsChild ==
    [][\A j \in Watchdogs :
          Live(j)' < Live(j) =>
              \/ ChildExit(j)
              \/ LeakedExit(j)
              \/ WStep(j)
              \/ mode = "super" /\ \E i \in Watchdogs \ {j} : SPkill(i)]_vars

\* C5 witness: in super-resilient mode watchdog i has just run pkill and the
\* child held by watchdog j, which is polling with no failure of its own, was
\* ended by that signal.
C5_Witness ==
    /\ mode = "super"
    /\ \E i \in Watchdogs : \E j \in Watchdogs \ {i} :
          /\ wpc[i] = "spawn"
          /\ wpc[j] = "top"
          /\ cur[j] = "Killed"
          /\ failRun[j] = 0

\* C6: a watchdog thread is outside its loop only if the flag is stopping.
C6_LeavesLoopOnlyOnStop ==
    \A i \in Watchdogs : wpc[i] \in {"kill", "done", "panicked"} => ~running

\* The backoff slept by the first failed spawn of a fresh watchdog.
FirstBackoff == IF mode = "resilient" THEN ResilientBackoff(1) ELSE SuperBackoff(SuperBackoffInit)

\* The largest backoff the code can compute.
BackoffCap == IF mode = "resilient" THEN ResilientBackoff(ResilientShiftCap) ELSE SuperBackoffCap

\* C7: the backoff slept after a failed spawn is at most the cap, is at least
\* the backoff slept after the previous failed spawn of the same run of
\* failures, and is the floor for the first failed spawn after a successful
\* spawn or of a fresh watchdog.
C7_BackoffMonotoneCappedReset ==
    [][\A i \in Watchdogs :
          (wpc[i] = "spawn" /\ wpc'[i] = "backoff") =>
              /\ backoff'[i] <= BackoffCap
              /\ failRun[i] > 0 => backoff'[i] >= backoff[i]
              /\ failRun[i] = 0 => backoff'[i] = FirstBackoff]_vars

\* C8: in resilient mode the long pause is entered only once five spawn
\* attempts in a row have failed, the counter is exactly 5 when it is entered
\* after the fifth, and the sixth attempt is made only after the pause.
C8_PauseExactlyBeforeSixth ==
    /\ [](\A i \in Watchdogs :
            (mode = "resilient" /\ wpc[i] = "pause") =>
                (failRun[i] >= MAX_FAILURES /\ (failRun[i] = MAX_FAILURES => fails[i] = MAX_FAILURES)))
    /\ [][\A i \in Watchdogs :
            (mode = "resilient" /\ failRun[i] = MAX_FAILURES /\ wpc[i] # "spawn"
               /\ wpc'[i] = "spawn") => wpc[i] = "pause"]_vars

\* A resilient watchdog that has never spawned successfully.
Fresh(i) == mode = "resilient" /\ cur[i] = "None" /\ wpc[i] \in InLoop

\* C8, amended: for a resilient watchdog that has not yet spawned successfully
\* (scenario C), the counter equals the number of failed spawn attempts, the
\* long pause is entered only once five attempts have failed, with the counter
\* at exactly 5 after the fifth, and the sixth attempt is made only after the
\* pause.
C8_FreshPauseExactlyBeforeSixth ==
    /\ [](\A i \in Watchdogs :
            Fresh(i) =>
                /\ fails[i] = failRun[i]
                /\ wpc[i] = "pause" => failRun[i] >= MAX_FAILURES
                /\ (wpc[i] = "pause" /\ failRun[i] = MAX_FAILURES) => fails[i] = MAX_FAILURES)
    /\ [][\A i \in Watchdogs :
            (Fresh(i) /\ failRun[i] = MAX_FAILURES /\ wpc[i] # "spawn" /\ wpc'[i] = "spawn")
                => wpc[i] = "pause"]_vars

\* C8 witness: a fresh resilient watchdog in the long pause after exactly five
\* failed spawn attempts.
C8_Witness ==
    /\ Fresh(1)
    /\ wpc[1] = "pause"
    /\ failRun[1] = MAX_FAILURES
    /\ fails[1] = MAX_FAILURES

\* C10: a watchdog that has decided to restart (it is pausing, reconciling,
\* spawning or backing off) holds no child handle, and at the end of an
\* iteration it holds no handle or the handle of a child it has not seen dead.
C10_NoHandleWhenRestarting ==
    \A i \in Watchdogs :
        /\ wpc[i] \in {"pause", "pkill", "spawn", "backoff"} => cur[i] = "None"
        /\ wpc[i] = "top" => cur[i] \notin {"Waited0", "WaitedN"}

\* The fatal errors of the orchestrator.
FatalErrors == {"EnvError", "PermissionError"}

\* C11: when the executable is not found or cannot be made executable the
\* orchestrator returns that error at once: it has the error exactly when it
\* has failed, and then no watchdog thread was created, the interrupt handler
\* was not installed (the flag was never made) and no child was spawned.
C11_FatalErrorStartsNothing ==
    /\ (opc = "failed") <=> (result \in FatalErrors)
    /\ opc = "failed" =>
          /\ ~handlerOk
          /\ running = TRUE
          /\ \A i \in Watchdogs :
                wpc[i] = "none" /\ cur[i] = "None" /\ Live(i) = 0

\* The orchestrator has returned PermissionError and the process has exited.
C11_Witness ==
    /\ opc = "failed"
    /\ result = "PermissionError"
    /\ exit # <<>>

\* The watchdog threads that have been created.
Created == {i \in Watchdogs : wpc[i] # "none"}

\* C12: once startup has succeeded exactly 1 (resilient) or 3 (super-resilient)
\* watchdog threads have been created, none before, and until the flag is
\* stopping every one of them is still inside its loop: none is added, lost or
\* replaced.
C12_WatchdogCountFixed ==
    /\ opc \in {"locate", "perms", "harden", "handler", "spawn", "failed"} =>
          Created = {}
    /\ opc \in {"wait", "join", "returned"} =>
          Cardinality(Created) = (IF mode = "resilient" THEN 1 ELSE 3)
    /\ (opc = "wait" /\ running) => \A i \in Created : wpc[i] \in InLoop

\* C13: the host process exits with a non-zero status exactly when the
\* orchestrator returned a fatal error (target not found, permissions
\* unfixable), and with status zero exactly when it returned Ok, which it does
\* only after cancellation (the flag is stopping); spawn failures, child
\* crashes, kill failures and join failures (panicked watchdogs) change nothing.
C13_ExitStatusTellsFatalFromCancelled ==
    /\ exit # <<>> => opc \in {"returned", "failed"}
    /\ exit = <<1>> <=> (exit # <<>> /\ opc = "failed" /\ result \in FatalErrors)
    /\ exit = <<0>> <=> (exit # <<>> /\ opc = "returned" /\ result = "Ok")
    /\ opc = "returned" => ~running

\* The process has exited with status zero after cancellation although one
\* watchdog panicked (its join failed), another's last spawn attempt failed and
\* a child was left running.
C13_Witness ==
    /\ mode = "super"
    /\ exit = <<0>>
    /\ wpc[1] = "panicked"
    /\ failRun[2] > 0
    /\ leaked[1] > 0

\* The handler registration was attempted and failed.
RegistrationFailed == opc \in {"spawn", "wait", "join", "returned"} /\ ~handlerOk

\* C14: if registering the interrupt handler fails the orchestrator still
\* starts its watchdogs, the flag is running in every later state, no watchdog
\* reaches the code after its loop and the orchestrator stays in its wait loop:
\* it never joins and never returns.
C14_NoHandlerNeverStops ==
    RegistrationFailed =>
        /\ running = TRUE
        /\ opc \in {"spawn", "wait"}
        /\ opc = "wait" => Created = Started
        /\ \A i \in Created : wpc[i] \in InLoop
        /\ result = "none" /\ exit = <<>>

\* Registration failed, the three watchdogs were started and watchdog 1 has
\* restarted its child after a failed spawn attempt.
C14_Witness ==
    /\ RegistrationFailed
    /\ mode = "super"
    /\ opc = "wait"
    /\ \A i \in Watchdogs : wpc[i] \in InLoop
    /\ cur[1] = "Alive" /\ failRun[2] > 0

\* C15: process hardening is never fatal: set_process_priority returns Ok for
\* every combination of failing priority and OOM-score adjustments, and after
\* it the orchestrator has no error, installs the handler and starts all its
\* watchdogs with the flag running, whatever the adjustments did.
C15_HardeningNeverFatal ==
    /\ \A h \in HardenEnvs : set_process_priority(h).ret = "Ok"
    /\ obs.stage = "hardened" =>
          /\ obs.hres.ret = "Ok"
          /\ result = "none"
          /\ running = TRUE
          /\ opc \in {"handler", "spawn", "wait"}
          /\ opc = "wait" => Created = Started
          /\ opc # "wait" => Created = {}

\* Every adjustment failed (renice could not be run, nice could not be run,
\* the OOM score could not be written, echo could not be run) and the
\* orchestrator has installed the handler and started its watchdogs.
C15_Witness ==
    /\ obs.stage = "hardened"
    /\ obs.henv.linux
    /\ obs.henv.renice = "error"
    /\ ~obs.henv.nice /\ ~obs.henv.oom_write /\ ~obs.henv.echo
    /\ obs.hres.warnings = {"renice", "nice", "oom_score_adj"}
    /\ opc = "wait" /\ handlerOk /\ Created = Started

\* Candidate c yields an existing path in environment e.
Yields(c, e) ==
    CASE c = "home"  -> e.home = "exists"
      [] c = "cwd"   -> e.cwd = "exists"
      [] c = "sys"   -> e.sys
      [] c = "which" -> e.which = "path"

\* The positions, in the order home, cwd, system-wide, PATH lookup, of the
\* candidates that yield an existing path.
Existing(e) == {k \in 1..4 : Yields(<<"home", "cwd", "sys", "which">>[k], e)}

\* C16: get_xmr_path returns the first candidate, in the order home directory,
\* current directory, system-wide path, PATH lookup, that yields an existing
\* path, and the not-found error if and only if none of the four does.
C16_FirstExistingCandidate ==
    obs.stage = "located" =>
        /\ (obs.path = "EnvError") <=> (Existing(obs.env) = {})
        /\ (result = "EnvError") <=> (Existing(obs.env) = {})
        /\ \A k \in Existing(obs.env) :
              (\A j \in Existing(obs.env) : k <= j) =>
                  obs.path = <<"home", "cwd", "sys", "which">>[k]

\* Both the current-directory path and the system-wide path exist, HOME is set
\* but holds no xmr/xmr: the current-directory path is returned.
C16_Witness ==
    /\ obs.stage = "located"
    /\ obs.env.home = "absent"
    /\ obs.env.cwd = "exists"
    /\ obs.env.sys
    /\ obs.env.which = "path"
    /\ obs.path = "cwd"

\* The two mechanisms of set_executable_permissions in environment p.
ChmodSucceeds(p) == p.chmod = "success"
FallbackSucceeds(p) == p.metadata /\ p.set_permissions

\* What C17 says of one application that met environment p, returned ret,
\* attempted the fallback or not (fb) and took the file from mode m0 to m1.
BothMechanisms(p, ret, fb, m1) ==
    /\ ChmodSucceeds(p) => (ret = "Ok" /\ ~fb)
    /\ ~ChmodSucceeds(p) => (fb /\ (FallbackSucceeds(p) => (ret = "Ok" /\ m1 = Mode755)))
    /\ (ret = "PermissionError") <=> (~ChmodSucceeds(p) /\ ~FallbackSucceeds(p))

\* C17 (as stated): set_executable_permissions returns Ok when chmod succeeds,
\* without attempting the fallback; otherwise it attempts the fallback (mode
\* rwxr-xr-x) and returns Ok if that succeeds; it returns PermissionError if
\* and only if both mechanisms fail.
C17_PermissionErrorIffBothFail ==
    obs.stage \in {"fixed", "fixed2"} =>
        BothMechanisms(obs.penv, obs.rets[1], obs.fallbacks[1], obs.modes[2])

\* C17 (amended): the statement holds on a Unix build; on a build without
\* cfg(unix) the fallback does not exist, and the function returns Ok without
\* touching the file whenever chmod did not succeed.
C17_OnUnixPermissionErrorIffBothFail ==
    obs.stage \in {"fixed", "fixed2"} =>
        IF obs.penv.unix
        THEN BothMechanisms(obs.penv, obs.rets[1], obs.fallbacks[1], obs.modes[2])
        ELSE /\ obs.rets[1] = "Ok"
             /\ ~obs.fallbacks[1]
             /\ ~ChmodSucceeds(obs.penv) => obs.modes[2] = obs.modes[1]

\* On Unix chmod exited non-zero and the fallback took a file of mode rw-r--r--
\* to rwxr-xr-x.
C17_Witness ==
    /\ obs.stage = "fixed"
    /\ obs.penv.unix
    /\ obs.penv.chmod = "failure"
    /\ obs.fallbacks[1]
    /\ obs.rets[1] = "Ok"
    /\ obs.modes = <<(<<6, 4, 4>>), Mode755>>
    /\ opc = "harden"

\* C18: the permission-fixing step is idempotent: applied to a file that is
\* already executable it returns Ok and the file is still executable, and a
\* second application returns what the first returned and leaves the mode the
\* first application left.
C18_PermissionFixIdempotent ==
    /\ (obs.stage \in {"fixed", "fixed2"} /\ Executable(obs.modes[1])) =>
          (obs.rets[1] = "Ok" /\ Executable(obs.modes[2]))
    /\ obs.stage = "fixed2" =>
          (obs.rets[2] = obs.rets[1] /\ obs.modes[3] = obs.modes[2])

\* Watchdog i is in its loop without a running child: it has decided to
\* restart (need_restart is true), it sleeps after a failed spawn attempt, or it
\* is at the loop test and its child is dead or absent.
NeedsRestart(i) ==
    \/ wpc[i] \in {"pause", "pkill", "backoff"}
    \/ wpc[i] = "top" /\ cur[i] # "Alive"

\* While the flag stays running, a watchdog that needs a restart eventually
\* reaches its next Command::spawn call.
RestartEventually ==
    \A i \in Watchdogs : NeedsRestart(i) ~> (~running \/ wpc[i] = "spawn")

\* A failed spawn attempt of watchdog i is absorbed: the counter is incremented,
\* the thread sleeps its backoff inside the loop, and neither the flag nor the
\* orchestrator is touched.
SpawnFailureAbsorbed(i) ==
    (wpc[i] = "spawn" /\ wpc'[i] = "backoff") =>
        /\ fails'[i] = fails[i] + 1
        /\ leaked'[i] = leaked[i]
        /\ running' = running /\ opc' = opc /\ result' = result

\* C19: while the flag stays running, a watchdog whose child is dead or absent
\* (never spawned, exited, status-check error, spawn failure, killed as
\* unresponsive) eventually makes another spawn attempt; a failed attempt is
\* absorbed locally (counter incremented, backoff sleep, no child owned), and
\* from the backoff sleep the thread only goes back to the loop test.
C19_RestartLiveness ==
    /\ RestartEventually
    /\ [][\A i \in Watchdogs :
             /\ SpawnFailureAbsorbed(i)
             /\ (wpc[i] = "spawn" /\ wpc'[i] = "backoff") => cur'[i] = "None"
             /\ wpc[i] = "backoff" => wpc'[i] \in {"backoff", "top"}]_vars

\* The same without "no child owned".
RestartLivenessButHandle ==
    /\ RestartEventually
    /\ [][\A i \in Watchdogs :
             /\ SpawnFailureAbsorbed(i)
             /\ wpc[i] = "backoff" => wpc'[i] \in {"backoff", "top"}]_vars

\* C20: when the child of the resilient watchdog has exited with failure
\* (non-zero status or status-check error) five times in a row, each child
\* spawned successfully and no clean exit in between, the consecutive-failure
\* counter is 5 and the watchdog sleeps the 30 s pause before its next spawn.
C20_CrashLoopReachesPause ==
    [][(mode = "resilient" /\ crashRun = MAX_FAILURES - 1
                          /\ crashRun' = MAX_FAILURES) =>
          (fails'[1] = MAX_FAILURES /\ wpc'[1] = "pause")]_vars

\* The step in which watchdog i sees, in try_wait, that its child exited with a
\* non-zero status, or in which try_wait returns an error.
ObservesFailure(i) ==
    /\ wpc[i] = "top"
    /\ running = TRUE
    /\ cur[i] # "None"
    /\ cur'[i] # "Waited0"
    /\ wpc'[i] \in {"pause", "pkill", "spawn"}

\* C21: in both kinds of watchdog, the step that observes the child exited with
\* status zero leaves the consecutive-failure counter at 0, and the step that
\* observes a non-zero status or a status-check error adds exactly 1 to it.
C21_ExitObservationCounts ==
    [][\A i \in Watchdogs :
          /\ ObservesExit0(i) => fails'[i] = 0
          /\ ObservesFailure(i) => fails'[i] = fails[i] + 1]_vars

\* The same for the resilient watchdog alone.
ResilientExitObservationCounts ==
    [][mode = "resilient" =>
          /\ ObservesExit0(1) => fails'[1] = 0
          /\ ObservesFailure(1) => fails'[1] = fails[1] + 1]_vars

\* The step in which a spawn attempt of watchdog i fails; the thread then sleeps
\* backoff'[i] seconds.
SpawnFails(i) == wpc[i] = "spawn" /\ wpc'[i] = "backoff"

\* The values min(b * 2, cap) takes from the floor 1 s with the cap of the
\* super-resilient watchdog.
SuperLadder == {Pow2(k) : k \in 1..8} \cup {SuperBackoffCap}

\* backoff_time after n failed spawn attempts in a row (n >= 1).
RECURSIVE SuperBackoffAfter(_)
SuperBackoffAfter(n) ==
    IF n = 0 THEN SuperBackoffInit ELSE SuperBackoff(SuperBackoffAfter(n - 1))

\* The super-resilient ladder computed by the code is {2, 4, ..., 256, 300}.
SuperLadderComputed ==
    {SuperBackoffAfter(n) : n \in 1..(2 * ResilientShiftCap)} = SuperLadder

\* Every backoff slept in super-resilient mode is min(previous * 2, cap) and is
\* a value of the ladder.
SuperBackoffDoubles ==
    [][\A i \in Watchdogs :
          (mode = "super" /\ SpawnFails(i)) =>
              /\ backoff'[i] = Min(backoff[i] * 2, SuperBackoffCap)
              /\ backoff'[i] \in SuperLadder]_vars

\* A backoff slept by the resilient watchdog after an attempt that follows
\* another failed attempt is the double of the backoff slept before.
ResilientBackoffDoubles ==
    [][(mode = "resilient" /\ SpawnFails(1) /\ failRun[1] > 0) =>
          backoff'[1] = Min(backoff[1] * 2, ResilientBackoff(ResilientShiftCap))]_vars

\* No backoff slept by the resilient watchdog is longer than the five minutes
\* that cap the backoff of the super-resilient watchdog.
ResilientBackoffWithinMinutes ==
    mode = "resilient" => backoff[1] <= SuperBackoffCap

\* C22: the backoff slept after a failed spawn is min(previous backoff * 2,
\* cap) with a cap of a few minutes: in super-resilient mode it is one of
\* 2, 4, ..., 256, 300 s; in resilient mode the value 5 * 2^min(counter, 10) s
\* is the double of the backoff slept before and is never above a few minutes.
C22_BackoffDoublesUnderCap ==
    /\ SuperBackoffDoubles
    /\ ResilientBackoffDoubles
    /\ [][(mode = "resilient" /\ SpawnFails(1)) =>
             /\ backoff'[1] = ResilientBackoff(fails'[1])
             /\ backoff'[1] <= SuperBackoffCap]_vars

\* ps reported a run state, and it is neither R (runnable) nor S (sleeping).
Unresponsive(out) == Len(out) = 2 /\ out[2] \notin {"R", "S"}

\* What follows a kill by the health probe: the watchdog holds no child, the
\* counter and the backoff are as before, and from the loop test a watchdog
\* without a child goes to its restart (pkill, then the spawn attempt).
ProbeKillLeaves(i) ==
    /\ cur'[i] = "None"
    /\ fails'[i] = fails[i]
    /\ backoff'[i] = backoff[i]

RestartsWithoutChild(i) ==
    (mode = "super" /\ wpc[i] = "top" /\ cur[i] = "None" /\ running /\ wpc'[i] # "top")
        => wpc'[i] = "pkill"

\* C23: in super-resilient mode, when the child still runs and the probe
\* reports a run state that is neither runnable nor sleeping, the watchdog kills
\* the child and holds no child at the end of the iteration, counter and backoff
\* unchanged, and it attempts a spawn in its next iteration; when the probe
\* cannot be run nothing changes.
C23_UnresponsiveChildKilled ==
    [][\A i \in Watchdogs :
          /\ \A out \in PsOutputs :
                (ProbeObserved(i, out) /\ Unresponsive(out)) => ProbeKillLeaves(i)
          /\ RestartsWithoutChild(i)
          /\ (wpc[i] = "pkill" /\ wpc'[i] # "pkill") => wpc'[i] = "spawn"]_vars

\* What the code does: the probe kills the child exactly when the text ps wrote
\* holds neither an R nor an S, the header of the column included: that is when
\* ps wrote nothing at all.
ProbeKillsOnEmptyOutput ==
    [][\A i \in Watchdogs :
          /\ \A out \in PsOutputs :
                ProbeObserved(i, out) =>
                    IF out = <<>> THEN ProbeKillLeaves(i) ELSE cur'[i] = cur[i]
          /\ RestartsWithoutChild(i)
          /\ (wpc[i] = "pkill" /\ wpc'[i] # "pkill") => wpc'[i] = "spawn"]_vars

\* Number of live processes started from the target path.
Instances == Live(1) + Live(2) + Live(3)

\* C24: in super-resilient mode, under every interleaving of the pkill and
\* spawn steps of the three watchdogs, at most one live instance of the target
\* exists at any time.
C24_AtMostOneInstance == mode = "super" => Instances <= 1

\* What the reconciliation does achieve: when a pkill that could be run
\* returns, no instance is alive.
PkillLeavesNoInstance ==
    [][\A i \in Watchdogs :
          (wpc[i] = "pkill" /\ wpc'[i] = "spawn" /\ Instances > 0 /\ cur' # cur)
              => Instances' = 0]_vars

\* The step in which watchdog i starts a new child (its spawn call succeeds).
StartsChild(i) == wpc[i] = "spawn" /\ wpc'[i] = "top"

\* The step in which watchdog i runs pkill.
RunsPkill(i) == wpc[i] = "pkill" /\ wpc'[i] = "spawn"

\* C25: once the flag is stopping no watchdog starts a child: every spawn and
\* every pkill of a watchdog is performed while the flag is running, in both
\* modes.
C25_NoSpawnAfterStop ==
    [][\A i \in Watchdogs : (StartsChild(i) \/ RunsPkill(i)) => running]_vars

\* What the code guarantees: the flag was running when the iteration that
\* spawns began, and a child started while the flag is stopping is held by its
\* watchdog, which leaves the loop at its next test and kills it.
RestartDecidedWhileRunning ==
    [][\A i \in Watchdogs :
          /\ (wpc[i] = "top" /\ wpc'[i] \in {"pause", "pkill", "spawn"}) => running
          /\ (StartsChild(i) /\ ~running) => cur'[i] = "Alive"
          /\ (wpc[i] = "top" /\ ~running /\ wpc'[i] # "top") => wpc'[i] = "kill"]_vars

\* C26: when the orchestrator has returned and every kill issued by a watchdog
\* succeeded, no child a watchdog spawned is still alive.
C26_NoChildSurvivesReturn == opc = "returned" => Instances = 0

\* The children the watchdogs still hold when they finish are all ended: what
\* can survive the return is only a child whose handle was dropped.
HeldChildrenEndedAtReturn ==
    opc = "returned" => \A i \in Watchdogs : cur[i] = "None"

\* A handle is dropped while its child runs only by the spawn that follows a
\* failed status check of that child.
HandleDroppedOnlyAfterErr ==
    [][\A i \in Watchdogs :
          leaked'[i] > leaked[i] => (wpc[i] = "spawn" /\ cur[i] = "Alive")]_vars

\* Every watchdog holds a running child and is at its loop test: no watchdog
\* has a kill or a respawn to perform.
AllSettled == \A i \in Watchdogs : wpc[i] = "top" /\ cur[i] = "Alive"

\* C27: in super-resilient mode, if the flag stays running, every spawn
\* succeeds, the target never exits on its own and the probe always finds it
\* healthy, the system eventually reaches a state from which no watchdog kills
\* or respawns any more.
C27_SuperResilientStabilises ==
    \/ <>(~running \/ opc = "failed")
    \/ <>[]AllSettled

\* What the code guarantees instead: while the flag is running some instance
\* is started again and again (the target is never left dead for good).
SomeInstanceAgainAndAgain ==
    \/ <>(~running \/ opc = "failed")
    \/ []<>(Instances > 0)

\* The step in which the resilient watchdog calls try_wait on a handle that has
\* already reported the exit of its child in an earlier iteration.
ObservesExitAgain ==
    /\ mode = "resilient"
    /\ wpc[1] = "top"
    /\ running = TRUE
    /\ cur[1] \in {"Waited0", "WaitedN"}
    /\ wpc'[1] \in {"pause", "spawn"}

\* C28: in the resilient watchdog the exit of one child changes the
\* consecutive-failure counter in at most one loop iteration: an iteration that
\* finds the exit already counted leaves the counter as it is, also after a
\* failed replacement spawn.
C28_ExitCountedOnce ==
    [][ObservesExitAgain => fails'[1] = fails[1]]_vars

\* An exit is seen again only after a failed replacement spawn, and it is then
\* counted like a new exit.
ExitCountedAgainAfterFailedSpawn ==
    [][ObservesExitAgain =>
          /\ failRun[1] > 0
          /\ fails'[1] = RCount(fails[1], IF cur[1] = "Waited0" THEN "Exited0" ELSE "ExitedN")]_vars

====
